---- MODULE Spec2Model ----
(***************************************************************************)
(* A model of app.py, the Streamlit dashboard of regional visitor counts.  *)
(* One script run (a re-render) is one step: load_data through the cache,  *)
(* the twelve month buttons and the session state, the month filter, the   *)
(* inner join, the numeric coercion and dropna, the three metrics, the     *)
(* size/colour encoding, the top-10 chart and table, and the sidebar.      *)
(*                                                                         *)
(* A CSV cell is a tagged record: a number, a missing value (NaN) or a     *)
(* text that does not parse as a number.  A region name is a string, the   *)
(* empty field being the missing name.  Rationals (the marker size) are    *)
(* kept as numerator and denominator.                                      *)
(***************************************************************************)
EXTENDS Integers, Sequences, FiniteSets, TLC

VARIABLES disk, cache, reads, session_state, out

vars == <<disk, cache, reads, session_state, out>>

(***************************************************************************)
(* Bounds of the model.                                                    *)
(***************************************************************************)
MaxVisitRows == 2
MaxCount == 3
NRegions == 3
MaxTopRows == 11
MaxReads == 2

(***************************************************************************)
(* Program constants.                                                      *)
(***************************************************************************)
NButtons == 12
TopN == 10
DefaultMonth == 1
DegenerateSize == 1000
MinSize == 100
SizeSpan == 4900
RedSpan == 255
GreenTop == 255
GreenSpan == 100
Blue == 50
Alpha == 160

(***************************************************************************)
(* Cells and their conversions.                                            *)
(***************************************************************************)
Num(n) == [t |-> "num", v |-> n]
NaN == [t |-> "nan", v |-> 0]
Text == [t |-> "str", v |-> 0]
NoName == ""
NoKey == 0
None == 0

\* pd.to_numeric(column, errors='coerce'): a number stays, anything else is NaN.
to_numeric(x) == IF x.t = "num" THEN x ELSE NaN

isna(x) == x.t # "num"

\* f"{x:,.0f}" of the float n/d (n >= 0, d > 0): round half to even.
format0f(n, d) ==
    LET q == n \div d
        r == n % d
    IN  IF 2 * r < d THEN q
        ELSE IF 2 * r > d THEN q + 1
        ELSE IF q % 2 = 0 THEN q ELSE q + 1

(***************************************************************************)
(* Sequence helpers.                                                       *)
(***************************************************************************)
RECURSIVE Flatten(_)
Flatten(ss) == IF Len(ss) = 0 THEN <<>> ELSE Head(ss) \o Flatten(Tail(ss))

\* The sum of a sequence of integers.
RECURSIVE SumSeq(_)
SumSeq(s) == IF Len(s) = 0 THEN 0 ELSE Head(s) + SumSeq(Tail(s))

Range(s) == {s[i] : i \in DOMAIN s}

SetMax(S) == CHOOSE x \in S : \A y \in S : y <= x
SetMin(S) == CHOOSE x \in S : \A y \in S : x <= y

(***************************************************************************)
(* load_data under @st.cache_data.                                         *)
(***************************************************************************)
\* The memo is empty (<<>>) or holds the one entry of the argument-less call.
cache_hit(c) == c # <<>>

\* load_data without the memo: every call reads the files again.
load_data_uncached(c, d, n) == [tables |-> d, cache |-> <<d>>, reads |-> n + 1]

\* What load_data() returns, the memo afterwards and the number of disk reads.
load_data(c, d, n) ==
    IF cache_hit(c)
    THEN [tables |-> c[1], cache |-> c, reads |-> n]
    ELSE [tables |-> d, cache |-> <<d>>, reads |-> n + 1]

(***************************************************************************)
(* Month buttons and session state.                                        *)
(***************************************************************************)
Months == 1..NButtons

\* The loop over the twelve st.button calls: the pressed month, or None.
selected_month(button) == IF button \in Months THEN button ELSE None

\* The session state reset to the default on a run without a press.
update_session_forgetful(ss, sel) == IF sel # None THEN sel ELSE DefaultMonth

\* st.session_state.selected_month after the two ifs.
update_session(ss, sel) ==
    LET init == IF ss = NoKey THEN DefaultMonth ELSE ss
    IN  IF sel # None THEN sel ELSE init

(***************************************************************************)
(* Filter, join, coercion, dropna.                                         *)
(***************************************************************************)
\* tourism_data[tourism_data['月'] == month_to_show].copy()
monthly_data(tourism_data, m) == SelectSeq(tourism_data, LAMBDA r : r.month = m)

\* pd.merge(monthly_data, coord_data, on='地域コード', how='inner'): for each
\* left row in order, its matching right rows in order; then the three
\* pd.to_numeric column writes.
JoinRow(v, c) ==
    [code |-> v.code, month |-> v.month, ninzu |-> v.ninzu, name |-> c.name,
     lat |-> to_numeric(c.lat), lon |-> to_numeric(c.lon),
     visitors |-> to_numeric(v.ninzu)]

merged_data(monthly, coord_data) ==
    Flatten([i \in DOMAIN monthly |->
        LET matches == SelectSeq(coord_data, LAMBDA c : c.code = monthly[i].code)
        IN  [j \in DOMAIN matches |-> JoinRow(monthly[i], matches[j])]])

\* dropna that overlooks the longitude column.
HasNa_no_lon(r) == r.name = NoName \/ isna(r.lat) \/ isna(r.visitors)

\* A row of merged_data[['地域名称', '緯度', '経度', '観光者数']] has a missing value.
HasNa(r) == r.name = NoName \/ isna(r.lat) \/ isna(r.lon) \/ isna(r.visitors)

\* merged_data[[...]].dropna(): the four columns, the index label kept.
map_data(merged) ==
    LET proj == [i \in DOMAIN merged |->
                    [idx |-> i, name |-> merged[i].name, lat |-> merged[i].lat,
                     lon |-> merged[i].lon, visitors |-> merged[i].visitors]]
    IN  SelectSeq(proj, LAMBDA r : ~HasNa(r))

(***************************************************************************)
(* The three st.metric widgets.                                            *)
(***************************************************************************)
Visitors(md) == [i \in DOMAIN md |-> md[i].visitors.v]

\* f"{map_data['観光者数'].sum():,.0f}": the sum of no rows is 0.
metric_total(md) == Num(SumSeq(Visitors(md)))

\* f"{map_data['観光者数'].mean():,.0f}": the mean of no rows is NaN, shown "nan".
metric_mean(md) ==
    IF Len(md) = 0 THEN NaN ELSE Num(format0f(SumSeq(Visitors(md)), Len(md)))

\* f"{len(map_data)}地域"
metric_regions(md) == Num(Len(md))

(***************************************************************************)
(* Visual encoding: size and colour from the min-max normalisation.        *)
(***************************************************************************)
max_visitors(md) == SetMax(Range(Visitors(md)))
min_visitors(md) == SetMin(Range(Visitors(md)))

\* map_data['size']: the rational 100 + (v - min) / (max - min) * 4900, or 1000.
size(v, mn, mx) ==
    IF mx > mn
    THEN [num |-> MinSize * (mx - mn) + (v - mn) * SizeSpan, den |-> mx - mn]
    ELSE [num |-> DegenerateSize, den |-> 1]

\* The cast replaced by a rounding to the nearest integer.
astype_int_rounding(n, d) == IF d = 0 THEN NaN ELSE Num(format0f(n, d))

\* (n / d).astype(int) for n >= 0: truncation; 0 / 0 is NaN, which astype
\* refuses (the NaN cell stands for the raised IntCastingNaNError).
astype_int(n, d) == IF d = 0 THEN NaN ELSE Num(n \div d)

\* ((v - min) / (max - min) * 255).astype(int)
color_r(v, mn, mx) == astype_int((v - mn) * RedSpan, mx - mn)

\* Green rising with the count instead of falling: 155 + f * 100.
color_g_rising(v, mn, mx) ==
    astype_int((GreenTop - GreenSpan) * (mx - mn) + (v - mn) * GreenSpan, mx - mn)

\* (255 - (v - min) / (max - min) * 100).astype(int)
color_g(v, mn, mx) == astype_int(GreenTop * (mx - mn) - (v - mn) * GreenSpan, mx - mn)

\* The rows handed to the ScatterplotLayer: map_data with the four new columns.
EncodeRow(r, mn, mx) ==
    [idx |-> r.idx, name |-> r.name, lat |-> r.lat, lon |-> r.lon,
     visitors |-> r.visitors, size |-> size(r.visitors.v, mn, mx),
     color_r |-> color_r(r.visitors.v, mn, mx),
     color_g |-> color_g(r.visitors.v, mn, mx),
     color_b |-> Blue, alpha |-> Alpha]

Encode(md) ==
    LET mn == min_visitors(md)
        mx == max_visitors(md)
    IN  [i \in DOMAIN md |-> EncodeRow(md[i], mn, mx)]

(***************************************************************************)
(* Top 10: nlargest, the bar chart's ascending order.                      *)
(***************************************************************************)
RemoveAt(s, i) == SubSeq(s, 1, i - 1) \o SubSeq(s, i + 1, Len(s))

\* The first position holding the largest (smallest) visitors value.
FirstMax(s) ==
    CHOOSE i \in DOMAIN s :
        /\ \A j \in DOMAIN s : s[j].visitors.v <= s[i].visitors.v
        /\ \A j \in 1..(i - 1) : s[j].visitors.v < s[i].visitors.v

FirstMin(s) ==
    CHOOSE i \in DOMAIN s :
        /\ \A j \in DOMAIN s : s[i].visitors.v <= s[j].visitors.v
        /\ \A j \in 1..(i - 1) : s[i].visitors.v < s[j].visitors.v

\* head(n) in place of nlargest: the first n rows, unsorted.
nlargest_head(n, s) == SubSeq(s, 1, IF Len(s) < n THEN Len(s) ELSE n)

\* DataFrame.nlargest(n, '観光者数'): descending, ties in their original order.
RECURSIVE nlargest(_, _)
nlargest(n, s) ==
    IF n = 0 \/ Len(s) = 0 THEN <<>>
    ELSE LET i == FirstMax(s)
         IN  <<s[i]>> \o nlargest(n - 1, RemoveAt(s, i))

\* sort_values('観光者数'): ascending; stable on the at most ten rows it gets.
RECURSIVE sort_values(_)
sort_values(s) ==
    IF Len(s) = 0 THEN <<>>
    ELSE LET i == FirstMin(s)
         IN  <<s[i]>> \o sort_values(RemoveAt(s, i))

\* map_data.nlargest(10, ...)[['地域名称', '観光者数']].reset_index(drop=True),
\* the index then moved to start at 1.
top10(md) ==
    LET t == nlargest(TopN, md)
    IN  [i \in DOMAIN t |-> [rank |-> i, name |-> t[i].name, visitors |-> t[i].visitors]]

(***************************************************************************)
(* The main column after the metrics: the charts, or the warning.          *)
(***************************************************************************)
NoCharts == [points |-> <<>>, top10 |-> <<>>, bar |-> <<>>]

\* The else branch: st.warning only.
no_data == [error |-> "none", calls |-> {"warning"}] @@ NoCharts

\* The if branch: encode; pydeck_chart; top 10; plotly_chart; dataframe.  The
\* script stops at the colour columns when astype raises.
charts(md) ==
    LET pts == Encode(md)
        t == top10(md)
    IN  IF \E i \in DOMAIN pts : isna(pts[i].color_r) \/ isna(pts[i].color_g)
        THEN [error |-> "IntCastingNaNError", calls |-> {}] @@ NoCharts
        ELSE [error |-> "none",
              calls |-> {"pydeck_chart", "plotly_chart(fig)", "dataframe"},
              points |-> pts, top10 |-> t, bar |-> sort_values(t)]

\* The test that lets an empty frame through.
has_data_always(md) == Len(md) >= 0

\* if len(map_data) > 0
has_data(md) == Len(md) > 0

main_column(md) == IF has_data(md) THEN charts(md) ELSE no_data

(***************************************************************************)
(* The sidebar: the year's statistics, from tourism_data as loaded.        *)
(***************************************************************************)
RECURSIVE Ascending(_)
Ascending(S) ==
    IF S = {} THEN <<>>
    ELSE LET m == SetMin(S) IN <<m>> \o Ascending(S \ {m})

\* Series.sum() of the raw '人数' cells of some rows: NaN is skipped.
ninzu_sum(rows) == SumSeq([i \in DOMAIN rows |-> IF isna(rows[i].ninzu) THEN 0 ELSE rows[i].ninzu.v])

\* A '人数' column holding unparseable text is an object column: its sum is
\* no number and the f"{...:,.0f}" of the first sidebar metric raises.
ninzu_is_text(tourism_data) == \E i \in DOMAIN tourism_data : tourism_data[i].ninzu.t = "str"

\* tourism_data.groupby('月')['人数'].sum().reset_index(): one row a month, ascending.
monthly_total(tourism_data) ==
    LET ms == Ascending({tourism_data[i].month : i \in DOMAIN tourism_data})
    IN  [k \in DOMAIN ms |->
            [month |-> ms[k],
             visitors |-> ninzu_sum(SelectSeq(tourism_data, LAMBDA r : r.month = ms[k]))]]

\* tourism_data.groupby('地域コード')['人数'].sum().reset_index()
total_by_region(tourism_data) ==
    LET cs == Ascending({tourism_data[i].code : i \in DOMAIN tourism_data})
    IN  [k \in DOMAIN cs |->
            [code |-> cs[k],
             ninzu |-> ninzu_sum(SelectSeq(tourism_data, LAMBDA r : r.code = cs[k]))]]

\* pd.merge(total_by_region, coord_data, on='地域コード', how='inner'): computed, never shown.
total_merged(tourism_data, coord_data) ==
    LET t == total_by_region(tourism_data)
    IN  Flatten([i \in DOMAIN t |->
            LET matches == SelectSeq(coord_data, LAMBDA c : c.code = t[i].code)
            IN  [j \in DOMAIN matches |->
                    [code |-> t[i].code, ninzu |-> t[i].ninzu, name |-> matches[j].name,
                     lat |-> matches[j].lat, lon |-> matches[j].lon]]])

\* f"{tourism_data['人数'].sum():,.0f}"
annual_total(tourism_data) == Num(ninzu_sum(tourism_data))

\* f"{tourism_data.groupby('月')['人数'].sum().mean():,.0f}": NaN over no month.
annual_mean(tourism_data) ==
    LET mt == monthly_total(tourism_data)
    IN  IF Len(mt) = 0 THEN NaN
        ELSE Num(format0f(SumSeq([k \in DOMAIN mt |-> mt[k].visitors]), Len(mt)))

SidebarSkipped ==
    [status |-> "skipped", annual_total |-> NaN, annual_mean |-> NaN,
     total_merged |-> <<>>, line |-> <<>>, calls |-> {}]

\* with st.sidebar: header, two metrics, the line chart of the monthly totals.
sidebar(tourism_data, coord_data) ==
    IF ninzu_is_text(tourism_data)
    THEN [status |-> "error", annual_total |-> NaN, annual_mean |-> NaN,
          total_merged |-> <<>>, line |-> <<>>, calls |-> {}]
    ELSE [status |-> "ok", annual_total |-> annual_total(tourism_data),
          annual_mean |-> annual_mean(tourism_data),
          total_merged |-> total_merged(tourism_data, coord_data),
          line |-> monthly_total(tourism_data),
          calls |-> {"plotly_chart(fig_line)"}]

(***************************************************************************)
(* One run of the script.                                                  *)
(***************************************************************************)
\* Everything below month_to_show: a function of the loaded tables and the month.
page(tables, m, merged, md, main, side) ==
    [month_to_show |-> m, tourism_data |-> tables.tourism, coord_data |-> tables.coord,
     merged_data |-> merged, map_data |-> md,
     total |-> metric_total(md), mean |-> metric_mean(md),
     regions |-> metric_regions(md),
     error |-> main.error, calls |-> {"metric"} \cup main.calls \cup side.calls,
     points |-> main.points, top10 |-> main.top10, bar |-> main.bar,
     sidebar |-> side]

render(tables, m) ==
    LET merged == merged_data(monthly_data(tables.tourism, m), tables.coord)
        md == map_data(merged)
        main == main_column(md)
        side == IF main.error = "none" THEN sidebar(tables.tourism, tables.coord)
                ELSE SidebarSkipped
    IN  page(tables, m, merged, md, main, side)

\* The state before the first run of the script: nothing is on the page.
NotRun ==
    [ran |-> FALSE, selected_month |-> None]
    @@ [render([tourism |-> <<>>, coord |-> <<>>], DefaultMonth)
            EXCEPT !.calls = {}, !.sidebar = SidebarSkipped]

\* The whole script run with `button` pressed (0: none), on session state ss.
script(c, d, n, ss, button) ==
    LET ld == load_data(c, d, n)
        sel == selected_month(button)
        ss2 == update_session(ss, sel)
    IN  [cache |-> ld.cache, reads |-> ld.reads, session_state |-> ss2,
         out |-> [ran |-> TRUE, selected_month |-> sel] @@ render(ld.tables, ss2)]

(***************************************************************************)
(* The input files.  A row of city2024.csv is [code, month, ninzu], a row  *)
(* of city_latlon.csv is [code, name, lat, lon].                           *)
(***************************************************************************)
VisitRow(c, m, x) == [code |-> c, month |-> m, ninzu |-> x]
CoordRow(c, nm, la, lo) == [code |-> c, name |-> nm, lat |-> la, lon |-> lo]

RegionNames == <<"A", "B", "C", "D", "E", "F", "G", "H", "I", "J", "K", "L", "M", "N">>
GoodCoord(c) == CoordRow(c, RegionNames[c], Num(35 + c), Num(139 + c))

SeqsUpTo(S, n) == UNION {[1..k -> S] : k \in 0..n}

\* Small tables with every kind of defect: regions without coordinates and
\* coordinates without visits, two months, missing and unparseable cells, a
\* missing name, a region code listed twice.
JoinVisitRows ==
    {VisitRow(1, 1, Num(1)), VisitRow(2, 1, Num(1)), VisitRow(2, 2, Num(1)),
     VisitRow(1, 1, NaN), VisitRow(2, 1, Text)}
JoinCoordFirst ==
    {<<>>, <<GoodCoord(1)>>, <<CoordRow(1, NoName, Num(36), Num(140))>>,
     <<CoordRow(1, "A", Text, Num(140))>>}
JoinCoordSecond ==
    {<<GoodCoord(2)>>, <<CoordRow(2, "B", Num(37), NaN)>>,
     <<CoordRow(1, "C", Num(38), Num(142))>>}
JoinFiles ==
    {[tourism |-> t, coord |-> a \o b] :
        t \in SeqsUpTo(JoinVisitRows, MaxVisitRows), a \in JoinCoordFirst, b \in JoinCoordSecond}

\* Clean tables of month 1: every region has coordinates, at most one visit
\* row a region, counts in 0..MaxCount.
Absent == 0 - 1
EncFiles ==
    {[tourism |-> SelectSeq([c \in 1..NRegions |-> VisitRow(c, 1, Num(f[c]))],
                             LAMBDA r : r.ninzu.v # Absent),
      coord |-> [c \in 1..NRegions |-> GoodCoord(c)]] :
        f \in [1..NRegions -> {Absent} \cup 0..MaxCount]}

\* Clean tables of month 1 with ten rows or more: a zeros (as many as there
\* are rows beyond the tenth, or one more), b ones, the rest twos, in
\* ascending or in descending order.
TopCounts(n, a, b, asc) ==
    LET up == [i \in 1..n |-> IF i <= a THEN 0 ELSE IF i <= a + b THEN 1 ELSE 2]
    IN  IF asc THEN up ELSE [i \in 1..n |-> up[n + 1 - i]]
TopFiles ==
    {[tourism |-> [c \in 1..n |-> VisitRow(c, 1, Num(TopCounts(n, a, b, asc)[c]))],
      coord |-> [c \in 1..n |-> GoodCoord(c)]] :
        n \in TopN..MaxTopRows, a \in 0..(MaxTopRows - TopN + 1), b \in 0..MaxTopRows,
        asc \in BOOLEAN}

HeaderOnly == [tourism |-> <<>>, coord |-> <<>>]

(***************************************************************************)
(* The state machine.                                                      *)
(***************************************************************************)
InitWith(files) ==
    /\ disk \in files
    /\ cache = <<>>
    /\ reads = 0
    /\ session_state = NoKey
    /\ out = NotRun

Init == InitWith(JoinFiles)
InitEnc == InitWith(EncFiles)
InitTop == InitWith(TopFiles)

\* A run of the script: the first one of the session, or a re-run after a
\* button press (button in 1..12) or another event (button = 0).
Rerun(button) ==
    \E r \in {script(cache, disk, reads, session_state, button)} :
        /\ r.reads <= MaxReads
        /\ cache' = r.cache
        /\ reads' = r.reads
        /\ session_state' = r.session_state
        /\ out' = r.out
        /\ UNCHANGED disk

\* The environment rewrites both CSV files (here: down to their headers).
RewriteFiles ==
    /\ disk # HeaderOnly
    /\ disk' = HeaderOnly
    /\ UNCHANGED <<cache, reads, session_state, out>>

Next ==
    \/ \E button \in 0..NButtons : Rerun(button)
    \/ RewriteFiles

Spec == Init /\ [][Next]_vars
SpecEnc == InitEnc /\ [][Next]_vars
SpecTop == InitTop /\ [][Next]_vars

(***************************************************************************)
(* Properties.                                                             *)
(***************************************************************************)
Empty == out.ran /\ Len(out.map_data) = 0

\* C1: after any run the stored selected_month is in 1..12 and is the month
\* the filter uses; a run with button m pressed leaves it m; a run with no
\* button pressed leaves it unchanged, and makes it 1 when it was not set.
C1_MonthSelector ==
    /\ [](out.ran => session_state \in Months /\ out.month_to_show = session_state)
    /\ [](~out.ran => session_state = NoKey)
    /\ [][out'.ran =>
            /\ out'.selected_month # None => session_state' = out'.selected_month
            /\ out'.selected_month = None /\ session_state # NoKey
                  => session_state' = session_state
            /\ out'.selected_month = None /\ session_state = NoKey
                  => session_state' = DefaultMonth]_vars

\* A run without a press that kept a month chosen earlier; data of that month shown.
C1_Witness ==
    /\ out.ran
    /\ out.selected_month = None
    /\ session_state = 2
    /\ out.month_to_show = 2

ChartRenderers == {"pydeck_chart", "plotly_chart(fig)", "dataframe"}

\* C2 as stated: with no joined row for the month, the warning is shown and no
\* chart, map or table renderer is called in the run, the sidebar's line chart
\* included.
C2_NoRendererAtAll ==
    Empty => /\ "warning" \in out.calls
             /\ out.calls \cap (ChartRenderers \cup {"plotly_chart(fig_line)"}) = {}

\* C2 amended: with no joined row for the month, the warning is shown and the
\* map, the top-10 bar chart and the detail table are not rendered; the
\* sidebar still runs, and draws its line chart unless the visitor column
\* holds unparseable text.
C2_MainChartsSkipped ==
    Empty => /\ out.error = "none"
             /\ "warning" \in out.calls
             /\ out.calls \cap ChartRenderers = {}
             /\ out.points = <<>> /\ out.top10 = <<>> /\ out.bar = <<>>
             /\ out.sidebar.status # "skipped"
             /\ "plotly_chart(fig_line)" \in out.calls <=> ~ninzu_is_text(out.tourism_data)

\* A month without rows, in a year that has rows: warning and line chart together.
C2_Witness ==
    /\ Empty
    /\ out.tourism_data # <<>>
    /\ "warning" \in out.calls
    /\ "plotly_chart(fig_line)" \in out.calls
    /\ Len(out.sidebar.line) > 0

\* C8: with no joined row for the month the run ends in the "no data" state
\* and each of the three month metrics is either not rendered or shows zero.
C8_MetricsZeroOrHidden ==
    Empty => /\ out.error = "none"
             /\ "warning" \in out.calls
             /\ \/ "metric" \notin out.calls
                \/ out.total = Num(0) /\ out.mean = Num(0) /\ out.regions = Num(0)

NonEmpty == out.ran /\ Len(out.map_data) > 0
AllEqual == NonEmpty /\ max_visitors(out.map_data) = min_visitors(out.map_data)
Spread == NonEmpty /\ max_visitors(out.map_data) > min_visitors(out.map_data)

\* C3: for a non-empty joined set whose counts are all equal the encoding
\* completes and every row has size 1000 and colour (0, 255, 50).
C3_DegenerateEncoding ==
    AllEqual =>
        /\ out.error = "none"
        /\ Len(out.points) = Len(out.map_data)
        /\ \A i \in DOMAIN out.points :
              /\ out.points[i].size = [num |-> DegenerateSize, den |-> 1]
              /\ out.points[i].color_r = Num(0)
              /\ out.points[i].color_g = Num(GreenTop)
              /\ out.points[i].color_b = Blue

\* The joined rows that survive dropna, with the region code and month they
\* had in merged_data.
KeptRows ==
    [i \in DOMAIN out.map_data |->
        [code |-> out.merged_data[out.map_data[i].idx].code,
         month |-> out.merged_data[out.map_data[i].idx].month,
         name |-> out.map_data[i].name, lat |-> out.map_data[i].lat,
         lon |-> out.map_data[i].lon, visitors |-> out.map_data[i].visitors]]

\* The pairs of a visit row of the month and a coordinate row of its region
\* whose three numeric fields are numbers.
NumericPairs ==
    {p \in (DOMAIN out.tourism_data) \X (DOMAIN out.coord_data) :
        /\ out.tourism_data[p[1]].month = out.month_to_show
        /\ out.coord_data[p[2]].code = out.tourism_data[p[1]].code
        /\ out.tourism_data[p[1]].ninzu.t = "num"
        /\ out.coord_data[p[2]].lat.t = "num"
        /\ out.coord_data[p[2]].lon.t = "num"}

NamedPairs == {p \in NumericPairs : out.coord_data[p[2]].name # NoName}

PairRow(p) ==
    [code |-> out.tourism_data[p[1]].code, month |-> out.tourism_data[p[1]].month,
     name |-> out.coord_data[p[2]].name, lat |-> out.coord_data[p[2]].lat,
     lon |-> out.coord_data[p[2]].lon, visitors |-> out.tourism_data[p[1]].ninzu]

\* The rows of s are the rows of the pairs, each as many times.
SameRows(s, pairs) ==
    /\ Len(s) = Cardinality(pairs)
    /\ \A p \in pairs :
          Cardinality({i \in DOMAIN s : s[i] = PairRow(p)})
              = Cardinality({q \in pairs : PairRow(q) = PairRow(p)})

\* C4 as stated: the joined rows are exactly the pairs of a visit row of the
\* selected month and a coordinate row of the same region whose visitor
\* count, latitude and longitude are numbers.
C4_JoinNumericOnly == out.ran => SameRows(KeptRows, NumericPairs)

\* C4 amended: the joined rows are exactly the pairs of a visit row of the
\* selected month and a coordinate row of the same region whose visitor
\* count, latitude and longitude are numbers and whose region name is not
\* missing; their region codes are in both tables and no row is of another
\* month.
C4_JoinNamedNumeric ==
    out.ran =>
        /\ SameRows(KeptRows, NamedPairs)
        /\ \A i \in DOMAIN KeptRows :
              /\ KeptRows[i].month = out.month_to_show
              /\ KeptRows[i].code \in {r.code : r \in Range(out.tourism_data)}
                                      \cap {r.code : r \in Range(out.coord_data)}
        /\ NamedPairs = {} <=> Len(out.map_data) = 0

\* One row kept and one dropped by dropna, with a visit row of another month
\* and a visit row without coordinates in the table.
C4_Witness ==
    /\ NonEmpty
    /\ Len(out.merged_data) > Len(out.map_data)
    /\ \E r \in Range(out.tourism_data) : r.month # out.month_to_show
    /\ \E r \in Range(out.tourism_data) :
          \A c \in Range(out.coord_data) : c.code # r.code

\* The visit rows whose region has a coordinate row.
Matched(tourism_data, coord_data) ==
    SelectSeq(tourism_data, LAMBDA r : \E c \in Range(coord_data) : c.code = r.code)

\* What the page shows.
View(o) ==
    [total |-> o.total, mean |-> o.mean, regions |-> o.regions, error |-> o.error,
     calls |-> o.calls, points |-> o.points, top10 |-> o.top10, bar |-> o.bar,
     annual_total |-> o.sidebar.annual_total, annual_mean |-> o.sidebar.annual_mean,
     line |-> o.sidebar.line]

\* C5: the visit rows whose region has no coordinate row contribute to no
\* view: the page is the one the same tables give without those rows, the
\* sidebar's annual total, monthly mean and trend line included.
C5_UnmatchedContributeNothing ==
    out.ran =>
        View(out) = View(render([tourism |-> Matched(out.tourism_data, out.coord_data),
                                 coord |-> out.coord_data], out.month_to_show))

\* The top-10 subset of the joined rows, and the rows left out of it.
TopSubset == nlargest(TopN, out.map_data)
LeftOut(top) ==
    SelectSeq(out.map_data, LAMBDA r : \A i \in DOMAIN top : top[i].idx # r.idx)
FullSum == SumSeq(Visitors(out.map_data))

\* The rendered top 10 is the top-10 subset, whose rows are no smaller than
\* the rows left out.
TopIsLargest(top, left) ==
    /\ Len(top) = (IF Len(out.map_data) < TopN THEN Len(out.map_data) ELSE TopN)
    /\ Len(top) + Len(left) = Len(out.map_data)
    /\ \A i \in DOMAIN top : \A j \in DOMAIN left : top[i].visitors.v >= left[j].visitors.v
    /\ out.error = "none" =>
          out.top10 = [i \in DOMAIN top |->
                          [rank |-> i, name |-> top[i].name, visitors |-> top[i].visitors]]

\* C6 as stated: for a non-empty joined set the sum over the top-10 subset is
\* at most the sum over the set, and the two are equal exactly when the set
\* has at most 10 rows.
C6_EqualIffAtMostTen ==
    NonEmpty =>
        LET TopSum == SumSeq(Visitors(TopSubset))
        IN  /\ TopSum <= FullSum
            /\ TopSum = FullSum <=> Len(out.map_data) <= TopN

\* C6 amended: for a non-empty joined set of non-negative counts the top-10
\* subset holds the 10 largest rows, its sum is at most the sum over the set,
\* and the two are equal exactly when at most 10 rows have a count above 0,
\* so whenever the set has at most 10 rows.
C6_EqualIffAtMostTenPositive ==
    NonEmpty =>
        LET top == TopSubset
            TopSum == SumSeq(Visitors(top))
        IN  /\ TopIsLargest(top, LeftOut(top))
            /\ TopSum <= FullSum
            /\ TopSum = FullSum <=>
                  Cardinality({i \in DOMAIN out.map_data : out.map_data[i].visitors.v > 0})
                      <= TopN
            /\ Len(out.map_data) <= TopN => TopSum = FullSum

\* Eleven rows rendered, the one left out of the top 10 being a zero: equal sums.
C6_Witness ==
    /\ NonEmpty
    /\ out.error = "none"
    /\ Len(out.map_data) > TopN
    /\ Len(out.top10) = TopN
    /\ SumSeq(Visitors(out.top10)) = FullSum
    /\ FullSum > 0

\* The normalised count of a point is Frac(p) / Width.
Width == max_visitors(out.map_data) - min_visitors(out.map_data)
Frac(p) == p.visitors.v - min_visitors(out.map_data)

\* C7: with max_v > min_v the encoding completes; size and color_r do not
\* decrease and color_g does not increase with the count; size is in
\* [100, 5000], color_r in [0, 255], color_g in [155, 255]; a minimum row has
\* size 100 and colour (0, 255, 50), a maximum row size 5000 and (255, 155, 50).
C7_MonotoneEncoding ==
    Spread =>
        /\ out.error = "none"
        /\ Len(out.points) = Len(out.map_data)
        /\ \A i \in DOMAIN out.points :
              /\ out.points[i].visitors = out.map_data[i].visitors
              /\ out.points[i].size.den > 0
              /\ MinSize * out.points[i].size.den <= out.points[i].size.num
              /\ out.points[i].size.num <= (MinSize + SizeSpan) * out.points[i].size.den
              /\ out.points[i].color_r.t = "num" /\ out.points[i].color_g.t = "num"
              /\ out.points[i].color_r.v \in 0..RedSpan
              /\ out.points[i].color_g.v \in (GreenTop - GreenSpan)..GreenTop
              /\ out.points[i].color_b = Blue
              /\ Frac(out.points[i]) = 0 =>
                    /\ out.points[i].size.num = MinSize * out.points[i].size.den
                    /\ out.points[i].color_r.v = 0
                    /\ out.points[i].color_g.v = GreenTop
              /\ Frac(out.points[i]) = Width =>
                    /\ out.points[i].size.num = (MinSize + SizeSpan) * out.points[i].size.den
                    /\ out.points[i].color_r.v = RedSpan
                    /\ out.points[i].color_g.v = GreenTop - GreenSpan
        /\ \A i, j \in DOMAIN out.points :
              out.points[i].visitors.v <= out.points[j].visitors.v =>
                  /\ out.points[i].size.num * out.points[j].size.den
                        <= out.points[j].size.num * out.points[i].size.den
                  /\ out.points[i].color_r.v <= out.points[j].color_r.v
                  /\ out.points[i].color_g.v >= out.points[j].color_g.v

\* Three points of three different counts on the map.
C7_Witness ==
    /\ Spread
    /\ Len(out.points) = 3
    /\ Cardinality(Range(Visitors(out.map_data))) = 3

Abs(x) == IF x < 0 THEN 0 - x ELSE x

====
